---- MODULE Spec2Model ----
(***************************************************************************)
(* Model of the MCTC-MIB-A connection tester: the probe of one serial      *)
(* port (MCTCTester.test_connection in MCTC_TESTER.py and                  *)
(* test_serial_connection in script.py), and the interactive main loop of  *)
(* MCTC_TESTER.py (detect_ports, test_single_port, test_all_ports, run).   *)
(*                                                                         *)
(* Bytes are numbers 0..255, text is a sequence of code points.  Time is   *)
(* counted in tenths of a second.  Exceptions are named by their Python    *)
(* class.                                                                  *)
(***************************************************************************)
EXTENDS Integers, Sequences, FiniteSets, TLC

VARIABLES
    \* ---- one probe (the locals of test_connection / test_serial_connection)
    fn,                \* the probe function running: "test_connection" | "test_serial_connection" | "none"
    ppc,               \* the statement the probe is at, "returned", or "raised" (an exception left the probe)
    port_name,         \* the port_name argument
    ser,               \* the handle: "unbound" (never opened) | "open" | "closed"
    response,          \* bytes returned by ser.readline()
    decoded_response,  \* the text printed after "Received:"
    result,            \* the local result ("unset" until assigned); once ppc = "returned", the value returned
    exc,               \* the exception raised inside the probe (caught there, or leaving it), or "none"
    failed_at,         \* the statement that raised, or "none"
    calls,             \* the calls made on the transport during this probe, in order
    written,           \* the bytes this probe has written to the port
    elapsed,           \* tenths of a second since the probe was entered
    \* ---- the counting fake transport of a test that calls the probe directly
    opens,             \* number of successful serial.Serial(...) constructions
    closes,            \* number of ser.close() calls
    \* ---- MCTCTester and its main loop
    pc,                \* position of run(): see the actions; "harness" when the probe is called directly
    ports,             \* self.ports
    idx,               \* test_all_ports: 1-based index of the port the for loop is at
    results,           \* test_all_ports: results
    probed,            \* test_all_ports: the port names handed to test_connection, in call order
    report,            \* what detect_ports / run last told the user
    enum_failed,       \* the last call of comports() raised
    ended_by           \* why run() was left: "none" | "exit_choice" | an exception class

probeVars == <<fn, ppc, port_name, ser, response, decoded_response, result,
               exc, failed_at, calls, written, elapsed>>
ioVars    == <<opens, closes>>
runVars   == <<pc, ports, idx, results, probed, report, enum_failed, ended_by>>
vars      == <<fn, ppc, port_name, ser, response, decoded_response, result,
               exc, failed_at, calls, written, elapsed, opens, closes,
               pc, ports, idx, results, probed, report, enum_failed, ended_by>>

----------------------------------------------------------------------------
(* Bounds of the model *)

\* longest reply a device sends, beyond the named example replies
MaxLen == 3
\* most ports one enumeration reports
MaxPorts == 3
\* successful opens after which no new test is started
MaxOpens == 3
\* largest scheduling overrun of a timed wait, in tenths of a second
Margin == 1

(* Program constants *)

\* timeout=2 (seconds), in tenths of a second
TimeoutTenths == 20
\* time.sleep(0.5), in tenths of a second
SettleTenths == 5
\* the line terminator ser.readline() stops at
LF == 10

\* b"*IDN?\r\n"
test_command == <<42, 73, 68, 78, 63, 13, 10>>

----------------------------------------------------------------------------
(* The environment: devices, their replies, what a call can raise *)

\* "\r", "\n", " ", "M", the two bytes of U+00A0 (0xC2 0xA0), and 0xFF
Bytes == {10, 13, 32, 77, 160, 194, 255}

\* "MCTC-100\r\n"
IdnReply == <<77, 67, 84, 67, 45, 49, 48, 48, 13, 10>>

SeqUpTo(S, n) == UNION {[1..k -> S] : k \in 0..n}

\* what a device may send in answer to the stimulus
Replies == SeqUpTo(Bytes, MaxLen) \cup {IdnReply}

\* a few replies, one per way the classification can go
SampleReplies == {<<>>, <<13, 10>>, IdnReply, <<255, 10>>}

\* device names the user or the platform can name
Devices == {"COM1", "COM3", "/dev/ttyUSB0"}

\* Python's exception classes, as far as the except clauses tell them apart
IsSubclass(e, cls) ==
    CASE cls = "BaseException" -> TRUE
      [] cls = "Exception" -> e \in {"SerialException", "OSError", "UnicodeDecodeError", "EOFError"}
      [] OTHER -> e = cls

\* what a call on the transport can do: succeed, or raise
TransportOutcomes == {"ok", "SerialException", "OSError", "KeyboardInterrupt"}

\* how long the first byte of a reply can take to arrive: at once, or just before the timeout
Waits == {0, TimeoutTenths - 1}

----------------------------------------------------------------------------
(* Pure functions *)

RECURSIVE FirstLF(_, _)
FirstLF(buf, i) ==
    IF i > Len(buf) THEN 0
    ELSE IF buf[i] = LF THEN i
    ELSE FirstLF(buf, i + 1)

\* ser.readline(): the bytes up to and including the first "\n"; all of them if
\* the timeout ends the read first
readline(buf) ==
    IF FirstLF(buf, 1) = 0 THEN buf ELSE SubSeq(buf, 1, FirstLF(buf, 1))

\* a lead byte of a two-byte UTF-8 form followed by a continuation byte
TwoByte(bs) ==
    /\ bs[1] >= 194 /\ bs[1] <= 223
    /\ Len(bs) >= 2 /\ bs[2] >= 128 /\ bs[2] <= 191

\* the bytes are valid UTF-8.  One- and two-byte forms; the lead bytes of the
\* three- and four-byte forms are not in Bytes, and 0xF5..0xFF are never valid.
RECURSIVE decodable(_)
decodable(bs) ==
    IF bs = <<>> THEN TRUE
    ELSE IF bs[1] < 128 THEN decodable(Tail(bs))
    ELSE IF TwoByte(bs) THEN decodable(Tail(Tail(bs)))
    ELSE FALSE

\* the code points of valid UTF-8 bytes
RECURSIVE codepoints(_)
codepoints(bs) ==
    IF bs = <<>> THEN <<>>
    ELSE IF bs[1] < 128 THEN <<bs[1]>> \o codepoints(Tail(bs))
    ELSE <<(bs[1] - 192) * 64 + (bs[2] - 128)>> \o codepoints(Tail(Tail(bs)))

\* bytes.decode(): strict UTF-8; ok is FALSE where Python raises
\* UnicodeDecodeError
decode(bs) ==
    [ok |-> decodable(bs), text |-> IF decodable(bs) THEN codepoints(bs) ELSE <<>>]

\* str.isspace() for one code point below U+0800
isspace(c) == c \in {9, 10, 11, 12, 13, 28, 29, 30, 31, 32, 133, 160}

RECURSIVE lstrip(_)
lstrip(s) == IF s # <<>> /\ isspace(s[1]) THEN lstrip(Tail(s)) ELSE s

RECURSIVE rstrip(_)
rstrip(s) ==
    IF s # <<>> /\ isspace(s[Len(s)]) THEN rstrip(SubSeq(s, 1, Len(s) - 1)) ELSE s

\* str.strip()
strip(s) == rstrip(lstrip(s))

----------------------------------------------------------------------------
(* The probe: control flow *)

\* test_connection with the settle delay left out
test_connection_body_no_sleep ==
    <<"open", "reset_input_buffer", "reset_output_buffer", "write",
      "readline", "classify", "close">>

\* the statements of test_connection that touch the transport or the clock, in
\* program order
test_connection_body ==
    <<"open", "reset_input_buffer", "reset_output_buffer", "write", "sleep",
      "readline", "classify", "close">>

\* the same for script.py's test_serial_connection
test_serial_connection_body ==
    <<"open", "write", "readline", "classify", "close">>

Body(f) ==
    IF f = "test_connection" THEN test_connection_body
    ELSE test_serial_connection_body

\* the statement after `step` in f
After(f, step) ==
    LET b == Body(f)
        i == CHOOSE k \in 1..Len(b) : b[k] = step
    IN  b[i + 1]

\* the except clauses in the other order: the general clause shadows the
\* SerialException clause
test_connection_except_swapped(e) ==
    IF IsSubclass(e, "Exception") THEN "UNKNOWN_ERROR"
    ELSE IF IsSubclass(e, "SerialException") THEN "SERIAL_ERROR"
    ELSE "PROPAGATE"

\* the SerialException clause alone: the catch-all clause is missing
test_connection_except_serial_only(e) ==
    IF IsSubclass(e, "SerialException") THEN "SERIAL_ERROR"
    ELSE "PROPAGATE"

\* test_connection's except clauses, in order: the value returned for an
\* exception, or "PROPAGATE" when no clause matches
test_connection_except(e) ==
    IF IsSubclass(e, "SerialException") THEN "SERIAL_ERROR"
    ELSE IF IsSubclass(e, "Exception") THEN "UNKNOWN_ERROR"
    ELSE "PROPAGATE"

\* test_serial_connection's single except clause; the function returns nothing
test_serial_connection_except(e) ==
    IF IsSubclass(e, "Exception") THEN "None" ELSE "PROPAGATE"

Handler(f, e) ==
    IF f = "test_connection" THEN test_connection_except(e)
    ELSE test_serial_connection_except(e)

\* statement `step` raises e: the matching except clause returns, or e leaves
\* the probe.  Nothing on this path closes the handle.
Throw(e, step) ==
    /\ exc' = e
    /\ failed_at' = step
    /\ IF Handler(fn, e) = "PROPAGATE"
       THEN ppc' = "raised" /\ result' = result
       ELSE ppc' = "returned" /\ result' = Handler(fn, e)

\* the fake transport counts a call; the serial library counts nothing
Counted(n) == IF pc = "harness" THEN n + 1 ELSE n

\* entering the probe function f with argument p: fresh locals
Enter(f, p) ==
    /\ fn' = f
    /\ port_name' = p
    /\ ppc' = "open"
    /\ ser' = "unbound"
    /\ response' = <<>>
    /\ decoded_response' = <<>>
    /\ result' = "unset"
    /\ exc' = "none"
    /\ failed_at' = "none"
    /\ calls' = <<>>
    /\ written' = <<>>
    /\ elapsed' = 0

\* the classification with .strip() forgotten
test_connection_classify_no_strip(resp) ==
    IF resp = <<>>
    THEN [exc |-> "none", result |-> "NO_RESPONSE", text |-> <<>>]
    ELSE IF ~decode(resp).ok
    THEN [exc |-> "UnicodeDecodeError", result |-> "unset", text |-> <<>>]
    ELSE LET d == decode(resp).text
         IN  [exc |-> "none",
              result |-> IF d # <<>> /\ Len(d) > 0 THEN "SUCCESS" ELSE "EMPTY_RESPONSE",
              text |-> d]

\* the probe's value has been taken by its caller: its locals are gone
Leave ==
    /\ fn' = "none"
    /\ port_name' = ""
    /\ ppc' = "idle"
    /\ ser' = "unbound"
    /\ response' = <<>>
    /\ decoded_response' = <<>>
    /\ result' = "unset"
    /\ exc' = "none"
    /\ failed_at' = "none"
    /\ calls' = <<>>
    /\ written' = <<>>
    /\ elapsed' = 0

\* lines 89-101 of test_connection: decode, strip and classify the bytes read
test_connection_classify(resp) ==
    IF resp = <<>>
    THEN [exc |-> "none", result |-> "NO_RESPONSE", text |-> <<>>]
    ELSE IF ~decode(resp).ok
    THEN [exc |-> "UnicodeDecodeError", result |-> "unset", text |-> <<>>]
    ELSE LET d == strip(decode(resp).text)
         IN  [exc |-> "none",
              result |-> IF d # <<>> /\ Len(d) > 0 THEN "SUCCESS" ELSE "EMPTY_RESPONSE",
              text |-> d]

\* lines 30-34 of script.py: print the reply; nothing is assigned
test_serial_connection_classify(resp) ==
    IF resp = <<>>
    THEN [exc |-> "none", result |-> "unset", text |-> <<>>]
    ELSE IF ~decode(resp).ok
    THEN [exc |-> "UnicodeDecodeError", result |-> "unset", text |-> <<>>]
    ELSE [exc |-> "none", result |-> "unset", text |-> strip(decode(resp).text)]

Classify(f, resp) ==
    IF f = "test_connection" THEN test_connection_classify(resp)
    ELSE test_serial_connection_classify(resp)

\* how long ser.readline() takes when it returns `resp`: a silent device costs
\* the whole timeout; a full line arrives after w; a line cut short costs the
\* wait for its bytes and then the timeout of the read that found nothing more
ReadTime(resp, w, j) ==
    IF resp = <<>> THEN TimeoutTenths + j
    ELSE IF resp[Len(resp)] = LF THEN w
    ELSE w + TimeoutTenths + j

----------------------------------------------------------------------------
(* The probe: one action per statement *)

\* ser = serial.Serial(port=port_name, ..., timeout=2)
Serial(o) ==
    /\ ppc = "open"
    /\ calls' = Append(calls, "open")
    /\ IF o = "ok"
       THEN /\ ser' = "open"
            /\ opens' = Counted(opens)
            /\ ppc' = After(fn, "open")
            /\ UNCHANGED <<result, exc, failed_at>>
       ELSE /\ Throw(o, "open")
            /\ UNCHANGED <<ser, opens>>
    /\ UNCHANGED <<fn, port_name, response, decoded_response, written, elapsed, closes>>
    /\ UNCHANGED runVars

\* a buffer reset on the open handle: step is the method's name
HandleCall(step, o) ==
    /\ ppc = step
    /\ calls' = Append(calls, step)
    /\ IF o = "ok"
       THEN /\ ppc' = After(fn, step)
            /\ UNCHANGED <<result, exc, failed_at>>
       ELSE Throw(o, step)
    /\ UNCHANGED <<fn, port_name, ser, response, decoded_response, written, elapsed>>
    /\ UNCHANGED ioVars
    /\ UNCHANGED runVars

\* ser.reset_input_buffer()
reset_input_buffer(o) == HandleCall("reset_input_buffer", o)

\* ser.reset_output_buffer()
reset_output_buffer(o) == HandleCall("reset_output_buffer", o)

\* ser.write(test_command)
write(o) ==
    /\ ppc = "write"
    /\ calls' = Append(calls, "write")
    /\ IF o = "ok"
       THEN /\ written' = written \o test_command
            /\ ppc' = After(fn, "write")
            /\ UNCHANGED <<result, exc, failed_at>>
       ELSE /\ Throw(o, "write")
            /\ UNCHANGED written
    /\ UNCHANGED <<fn, port_name, ser, response, decoded_response, elapsed>>
    /\ UNCHANGED ioVars
    /\ UNCHANGED runVars

\* time.sleep(0.5)
sleep(o) ==
    /\ ppc = "sleep"
    /\ IF o = "ok"
       THEN /\ ppc' = After(fn, "sleep")
            /\ elapsed' = elapsed + SettleTenths
            /\ calls' = Append(calls, "sleep")
            /\ UNCHANGED <<result, exc, failed_at>>
       ELSE /\ Throw(o, "sleep")
            /\ UNCHANGED <<elapsed, calls>>
    /\ UNCHANGED <<fn, port_name, ser, response, decoded_response, written>>
    /\ UNCHANGED ioVars
    /\ UNCHANGED runVars

\* response = ser.readline(): the device sends r, its first byte after w; a
\* wait that runs into the timeout overruns it by j.  (An input that cannot
\* matter to the outcome is fixed at its least value.)
ser_readline(o, r, w, j) ==
    /\ ppc = "readline"
    /\ o # "ok" => (r = <<>> /\ w = 0 /\ j = 0)
    /\ readline(r) = <<>> => w = 0
    /\ (readline(r) # <<>> /\ readline(r)[Len(readline(r))] = LF) => j = 0
    /\ calls' = Append(calls, "readline")
    /\ IF o = "ok"
       THEN /\ response' = readline(r)
            /\ elapsed' = elapsed + ReadTime(readline(r), w, j)
            /\ ppc' = After(fn, "readline")
            /\ UNCHANGED <<result, exc, failed_at>>
       ELSE /\ Throw(o, "readline")
            /\ UNCHANGED <<response, elapsed>>
    /\ UNCHANGED <<fn, port_name, ser, decoded_response, written>>
    /\ UNCHANGED ioVars
    /\ UNCHANGED runVars

\* if response: ... else: ...   (decode, strip, print, choose the result)
classify ==
    /\ ppc = "classify"
    /\ LET c == Classify(fn, response)
       IN  IF c.exc = "none"
           THEN /\ decoded_response' = c.text
                /\ result' = c.result
                /\ ppc' = After(fn, "classify")
                /\ UNCHANGED <<exc, failed_at>>
           ELSE /\ Throw(c.exc, "classify")
                /\ UNCHANGED decoded_response
    /\ UNCHANGED <<fn, port_name, ser, response, calls, written, elapsed>>
    /\ UNCHANGED ioVars
    /\ UNCHANGED runVars

\* ser.close(); return result   (script.py: ser.close(), and the function ends)
close(o) ==
    /\ ppc = "close"
    /\ IF o = "ok"
       THEN /\ ser' = "closed"
            /\ closes' = Counted(closes)
            /\ calls' = Append(calls, "close")
            /\ ppc' = "returned"
            /\ result' = IF fn = "test_connection" THEN result ELSE "None"
            /\ UNCHANGED <<exc, failed_at>>
       ELSE /\ Throw(o, "close")
            /\ UNCHANGED <<ser, closes, calls>>
    /\ UNCHANGED <<fn, port_name, response, decoded_response, written, elapsed, opens>>
    /\ UNCHANGED runVars

\* the statements of a probe, with every input the environment can give
ProbeStep(R, W, J) ==
    \/ \E o \in TransportOutcomes : Serial(o)
    \/ \E o \in TransportOutcomes : reset_input_buffer(o)
    \/ \E o \in TransportOutcomes : reset_output_buffer(o)
    \/ \E o \in TransportOutcomes : write(o)
    \/ \E o \in {"ok", "KeyboardInterrupt"} : sleep(o)
    \/ /\ ppc = "readline"
       /\ \E o \in TransportOutcomes, r \in R, w \in W, j \in J :
             ser_readline(o, r, w, j)
    \/ classify
    \/ \E o \in {"ok", "KeyboardInterrupt"} : close(o)

----------------------------------------------------------------------------
(* The probe called directly, as a test with a fake transport calls it *)

ProbeFunctions == {"test_connection", "test_serial_connection"}

InitProbe ==
    /\ fn = "none" /\ ppc = "idle" /\ port_name = ""
    /\ ser = "unbound" /\ response = <<>> /\ decoded_response = <<>>
    /\ result = "unset" /\ exc = "none" /\ failed_at = "none"
    /\ calls = <<>> /\ written = <<>> /\ elapsed = 0
    /\ opens = 0 /\ closes = 0

InitRun(start) ==
    /\ pc = start /\ ports = <<>> /\ idx = 1 /\ results = <<>>
    /\ probed = <<>> /\ report = "none" /\ enum_failed = FALSE
    /\ ended_by = "none"

Init == InitProbe /\ InitRun("harness")

\* the test calls a probe function on a port; the previous probe has returned
CallProbe(f, p) ==
    /\ pc = "harness"
    /\ ppc \in {"idle", "returned"}
    /\ opens < MaxOpens
    /\ Enter(f, p)
    /\ UNCHANGED ioVars
    /\ UNCHANGED runVars

Next ==
    \/ \E f \in ProbeFunctions, p \in Devices : CallProbe(f, p)
    \/ ProbeStep(Replies, Waits, 0..Margin)

Spec == Init /\ [][Next]_vars

----------------------------------------------------------------------------
(* MCTCTester: the main loop and the two tests *)

\* one entry of serial.tools.list_ports.comports()
PortInfo(d) == [device |-> d, description |-> <<"description of", d>>]

\* what comports() can return
Enumerations == SeqUpTo({PortInfo(d) : d \in Devices}, MaxPorts)

\* what input() can do besides returning a line
StdinFaults == {"KeyboardInterrupt", "EOFError"}

\* lines the user types at "Select option (1-5)"
MenuChoices == {"1", "2", "3", "4", "5", "x"}

\* lines the user types at "Enter port number or port name": a number (from 0
\* to one past the longest list), an enumerated device, or some other name
PortChoices ==
    {[isdigit |-> TRUE, int |-> n, str |-> ""] : n \in 0..(MaxPorts + 1)}
    \cup {[isdigit |-> FALSE, int |-> 0, str |-> d] : d \in Devices \cup {"COM9"}}

\* an exception reaches the try block of run(): its two except clauses
RunRaise(e) ==
    IF IsSubclass(e, "KeyboardInterrupt")
    THEN /\ pc' = "exited"
         /\ ended_by' = e
         /\ report' = "INTERRUPTED"
    ELSE /\ pc' = "handler"
         /\ report' = "UNEXPECTED_ERROR"
         /\ UNCHANGED ended_by

\* show_menu() up to its return or the menu text: print_header, detect_ports
\* (sleep, comports, the report), display_ports.  o is what comports() does,
\* c the list it returns when it returns.
show_menu(o, c) ==
    /\ pc = "show_menu"
    /\ IF o = "ok"
       THEN /\ ports' = c
            /\ enum_failed' = FALSE
            /\ report' = IF c = <<>> THEN "NO_PORTS_FOUND" ELSE "FOUND"
            /\ pc' = IF c = <<>> THEN "rescan_prompt" ELSE "select"
            /\ UNCHANGED ended_by
       ELSE /\ enum_failed' = (o # "KeyboardInterrupt")
            /\ RunRaise(o)
            /\ UNCHANGED ports
    /\ UNCHANGED <<idx, results, probed>>
    /\ UNCHANGED probeVars
    /\ UNCHANGED ioVars

\* input("Press Enter to rescan..."), then show_menu returns
rescan_prompt(i) ==
    /\ pc = "rescan_prompt"
    /\ IF i = "ok"
       THEN pc' = "select" /\ UNCHANGED <<report, ended_by>>
       ELSE RunRaise(i)
    /\ UNCHANGED <<ports, idx, results, probed, enum_failed>>
    /\ UNCHANGED probeVars
    /\ UNCHANGED ioVars

\* choice = input("Select option (1-5): ").strip() and the if/elif chain, up to
\* the first prompt or probe of the chosen test
select(i) ==
    /\ pc = "select"
    /\ CASE i = "1" ->
              /\ pc' = IF ports = <<>> THEN "press_enter" ELSE "single_prompt"
              /\ UNCHANGED <<idx, results, probed, report, ended_by>>
         [] i = "2" ->
              /\ pc' = IF ports = <<>> THEN "press_enter" ELSE "all_loop"
              /\ idx' = 1
              /\ results' = <<>>
              /\ probed' = <<>>
              /\ UNCHANGED <<report, ended_by>>
         [] i \in {"3", "4", "x"} ->
              /\ pc' = "show_menu"
              /\ UNCHANGED <<idx, results, probed, report, ended_by>>
         [] i = "5" ->
              /\ pc' = "exited"
              /\ ended_by' = "exit_choice"
              /\ report' = "GOODBYE"
              /\ UNCHANGED <<idx, results, probed>>
         [] OTHER ->
              /\ RunRaise(i)
              /\ UNCHANGED <<idx, results, probed>>
    /\ UNCHANGED <<ports, enum_failed>>
    /\ UNCHANGED probeVars
    /\ UNCHANGED ioVars

\* test_single_port: choice = input("Enter port number or port name: "), and
\* the call of test_connection it leads to.  i is what input() does, choice
\* the line it returns when it returns.
test_single_port(i, choice) ==
    /\ pc = "single_prompt"
    /\ IF i = "ok"
       THEN IF choice.isdigit
            THEN IF 0 <= choice.int - 1 /\ choice.int - 1 < Len(ports)
                 THEN /\ Enter("test_connection", ports[choice.int].device)
                      /\ pc' = "single_call"
                      /\ UNCHANGED <<report, ended_by>>
                 ELSE /\ pc' = "press_enter"
                      /\ UNCHANGED <<report, ended_by>>
                      /\ UNCHANGED probeVars
            ELSE /\ Enter("test_connection", choice.str)
                 /\ pc' = "single_call"
                 /\ UNCHANGED <<report, ended_by>>
       ELSE /\ RunRaise(i)
            /\ UNCHANGED probeVars
    /\ UNCHANGED <<ports, idx, results, probed, enum_failed>>
    /\ UNCHANGED ioVars

\* test_single_port: test_connection has returned; its result is dropped
test_single_port_return ==
    /\ pc = "single_call"
    /\ ppc = "returned"
    /\ pc' = "press_enter"
    /\ Leave
    /\ UNCHANGED <<ports, idx, results, probed, report, enum_failed, ended_by>>
    /\ UNCHANGED ioVars

\* test_all_ports: the head of "for port in self.ports": call test_connection
\* on the next port, or leave the loop and print the summary
test_all_ports_for ==
    /\ pc = "all_loop"
    /\ IF idx <= Len(ports)
       THEN /\ Enter("test_connection", ports[idx].device)
            /\ probed' = Append(probed, ports[idx].device)
            /\ pc' = "all_call"
       ELSE /\ pc' = "all_summary"
            /\ UNCHANGED probed
            /\ UNCHANGED probeVars
    /\ UNCHANGED <<ports, idx, results, report, enum_failed, ended_by>>
    /\ UNCHANGED ioVars

\* the loop body with a break after the first result that is not SUCCESS
test_all_ports_append_break(o) ==
    /\ pc = "all_call"
    /\ ppc = "returned"
    /\ results' = Append(results, <<ports[idx].device, result>>)
    /\ IF o = "ok"
       THEN /\ idx' = IF result = "SUCCESS" THEN idx + 1 ELSE Len(ports) + 1
            /\ pc' = "all_loop"
            /\ UNCHANGED <<report, ended_by>>
       ELSE /\ RunRaise(o)
            /\ UNCHANGED idx
    /\ UNCHANGED <<ports, probed, enum_failed>>
    /\ Leave
    /\ UNCHANGED ioVars

\* test_all_ports: results.append((port.device, result)); print(); time.sleep(1)
test_all_ports_append(o) ==
    /\ pc = "all_call"
    /\ ppc = "returned"
    /\ results' = Append(results, <<ports[idx].device, result>>)
    /\ IF o = "ok"
       THEN /\ idx' = idx + 1
            /\ pc' = "all_loop"
            /\ UNCHANGED <<report, ended_by>>
       ELSE /\ RunRaise(o)
            /\ UNCHANGED idx
    /\ UNCHANGED <<ports, probed, enum_failed>>
    /\ Leave
    /\ UNCHANGED ioVars

\* test_all_ports: the summary is printed; input("Press Enter to continue...");
\* the function returns (or the exception leaves it) and its locals are gone
test_all_ports_summary(i) ==
    /\ pc = "all_summary"
    /\ IF i = "ok"
       THEN pc' = "show_menu" /\ UNCHANGED <<report, ended_by>>
       ELSE RunRaise(i)
    /\ idx' = 1
    /\ results' = <<>>
    /\ probed' = <<>>
    /\ UNCHANGED <<ports, enum_failed>>
    /\ UNCHANGED probeVars
    /\ UNCHANGED ioVars

\* input("Press Enter to continue...") at the end of a test, or after the
\* "no ports" / "invalid port number" message
press_enter(i) ==
    /\ pc = "press_enter"
    /\ IF i = "ok"
       THEN pc' = "show_menu" /\ UNCHANGED <<report, ended_by>>
       ELSE RunRaise(i)
    /\ UNCHANGED <<ports, idx, results, probed, enum_failed>>
    /\ UNCHANGED probeVars
    /\ UNCHANGED ioVars

\* an exception left test_connection: it passes through the test that called
\* it and reaches the except clauses of run()
run_except ==
    /\ pc \in {"single_call", "all_call"}
    /\ ppc = "raised"
    /\ RunRaise(exc)
    /\ UNCHANGED <<ports, idx, results, probed, enum_failed>>
    /\ UNCHANGED probeVars
    /\ UNCHANGED ioVars

\* run(): inside "except Exception", input("Press Enter to continue...").  No
\* try block encloses it: what it raises leaves run().
run_except_prompt(i) ==
    /\ pc = "handler"
    /\ IF i = "ok"
       THEN pc' = "show_menu" /\ UNCHANGED ended_by
       ELSE pc' = "crashed" /\ ended_by' = i
    /\ UNCHANGED <<ports, idx, results, probed, report, enum_failed>>
    /\ UNCHANGED probeVars
    /\ UNCHANGED ioVars

InitProgram == InitProbe /\ InitRun("show_menu")

NextRun ==
    \/ /\ pc = "show_menu"
       /\ \E o \in {"ok", "OSError", "KeyboardInterrupt"}, c \in Enumerations :
             show_menu(o, c)
    \/ \E i \in {"ok"} \cup StdinFaults : rescan_prompt(i)
    \/ \E i \in MenuChoices \cup StdinFaults : select(i)
    \/ /\ pc = "single_prompt"
       /\ \E i \in {"ok"} \cup StdinFaults, choice \in PortChoices :
             test_single_port(i, choice)
    \/ test_single_port_return
    \/ test_all_ports_for
    \/ \E o \in {"ok", "KeyboardInterrupt"} : test_all_ports_append(o)
    \/ \E i \in {"ok"} \cup StdinFaults : test_all_ports_summary(i)
    \/ \E i \in {"ok"} \cup StdinFaults : press_enter(i)
    \/ run_except
    \/ \E i \in {"ok"} \cup StdinFaults : run_except_prompt(i)
    \/ ProbeStep(SampleReplies, {0}, {0})

SpecRun == InitProgram /\ [][NextRun]_vars

----------------------------------------------------------------------------
(* Claims about one probe, checked under Spec *)

\* a probe of test_connection has returned to its caller
Returned == fn = "test_connection" /\ ppc = "returned"

Count(sq, x) == Cardinality({i \in 1..Len(sq) : sq[i] = x})

\* C1: once each probe has returned, the transport has seen as many closes as
\* successful opens, whatever branch each probe took.
C1_CloseMatchesOpen ==
    ppc \in {"idle", "returned"} => closes = opens

C3_DecodeError ==
    (Returned /\ response # <<>> /\ ~decode(response).ok /\ failed_at = "classify")
    => result = "DECODE_ERROR"

AllSpace(t) == \A i \in 1..Len(t) : isspace(t[i])

\* C4: with the port opened, nothing raised and the reply decodable, the
\* result is NO_RESPONSE exactly when no byte was read, EMPTY_RESPONSE exactly
\* when bytes were read and the decoded text is all whitespace, SUCCESS exactly
\* when the decoded text has a character that is not whitespace; the reply
\* "\r\n" is EMPTY_RESPONSE and "MCTC-100\r\n" is SUCCESS with text "MCTC-100".
C4_Classification ==
    (Returned /\ exc = "none") =>
        LET t == decode(response).text
        IN  /\ decode(response).ok
            /\ result \in {"NO_RESPONSE", "EMPTY_RESPONSE", "SUCCESS"}
            /\ (result = "NO_RESPONSE") <=> (Len(response) = 0)
            /\ (result = "EMPTY_RESPONSE") <=> (Len(response) >= 1 /\ AllSpace(t))
            /\ (result = "SUCCESS") <=> (~AllSpace(t))
            /\ (response = <<13, 10>>) => (result = "EMPTY_RESPONSE")
            /\ (response = IdnReply) =>
                  (result = "SUCCESS"
                     /\ decoded_response = <<77, 67, 84, 67, 45, 49, 48, 48>>)

\* the device answered "MCTC-100\r\n" and the probe printed "MCTC-100"
C4_Witness ==
    /\ Returned /\ exc = "none" /\ response = IdnReply
    /\ result = "SUCCESS" /\ decoded_response = <<77, 67, 84, 67, 45, 49, 48, 48>>

Silent == ppc = "returned" /\ exc = "none" /\ response = <<>>

\* C7 as stated: a silent device gives NO_RESPONSE, no sooner than the timeout
\* and no later than the timeout plus the scheduling margin.
C7_WithinTimeout ==
    (Returned /\ Silent) =>
        /\ result = "NO_RESPONSE"
        /\ elapsed >= TimeoutTenths
        /\ elapsed <= TimeoutTenths + Margin

\* C7 amended: a silent device gives NO_RESPONSE from test_connection, no
\* sooner than settle delay + timeout and no later than settle delay + timeout
\* + margin; test_serial_connection, which has no settle delay and returns
\* nothing, takes between the timeout and the timeout + margin.
C7_SettlePlusTimeout ==
    /\ (Returned /\ Silent) =>
          /\ result = "NO_RESPONSE"
          /\ elapsed >= SettleTenths + TimeoutTenths
          /\ elapsed <= SettleTenths + TimeoutTenths + Margin
    /\ (fn = "test_serial_connection" /\ Silent) =>
          /\ elapsed >= TimeoutTenths
          /\ elapsed <= TimeoutTenths + Margin

\* a silent device, and the read overran its timeout by the whole margin
C7_Witness ==
    /\ Returned /\ Silent /\ result = "NO_RESPONSE"
    /\ elapsed = SettleTenths + TimeoutTenths + Margin

\* position of the first x in sq, 0 if there is none
Pos(sq, x) ==
    IF \E i \in 1..Len(sq) : sq[i] = x
    THEN CHOOSE i \in 1..Len(sq) : sq[i] = x /\ \A k \in 1..(i - 1) : sq[k] # x
    ELSE 0

\* the calls of one probe are in the order open, flush input, flush output,
\* write, settle delay, read, with the stimulus written at most once
InOrder(c) ==
    /\ Count(c, "write") <= 1
    /\ Pos(c, "write") > 0 =>
          /\ Pos(c, "open") = 1
          /\ 0 < Pos(c, "reset_input_buffer")
          /\ Pos(c, "reset_input_buffer") < Pos(c, "write")
          /\ 0 < Pos(c, "reset_output_buffer")
          /\ Pos(c, "reset_output_buffer") < Pos(c, "write")
    /\ Pos(c, "readline") > 0 =>
          /\ 0 < Pos(c, "write")
          /\ Pos(c, "write") < Pos(c, "sleep")
          /\ Pos(c, "sleep") < Pos(c, "readline")

\* "*IDN?\r\n"
Stimulus == <<42, 73, 68, 78, 63, 13, 10>>

\* C9: in every probe the stimulus *IDN?\r\n is written only after both
\* buffers were flushed, the read starts only after the settle delay that
\* follows the write, and the stimulus is written at most once.
C9_StepOrder ==
    /\ InOrder(calls)
    /\ written \in {<<>>, Stimulus}

\* the part of C9 that test_connection keeps
C9_StepOrder_test_connection ==
    fn = "test_connection" => (InOrder(calls) /\ written \in {<<>>, Stimulus})

----------------------------------------------------------------------------
(* Claims about the main loop, checked under SpecRun *)

\* the device names of a list of ports, in order
DeviceIds(ps) == [i \in 1..Len(ps) |-> ps[i].device]

\* C5: test_all_ports hands the ports to test_connection one by one in list
\* order, each once, and appends one result per port under that port's device
\* name: when the loop is left without an interrupt there are as many results
\* as ports, the i-th for the i-th port, whatever the earlier results were.
C5_AllPortsInOrder ==
    pc \in {"all_loop", "all_call", "all_summary"} =>
        /\ idx \in 1..(Len(ports) + 1)
        /\ Len(results) = idx - 1
        /\ Len(probed) = IF pc = "all_call" THEN idx ELSE idx - 1
        /\ probed = SubSeq(DeviceIds(ports), 1, Len(probed))
        /\ \A i \in 1..Len(results) : results[i][1] = ports[i].device
        /\ pc = "all_summary" => Len(results) = Len(ports)

\* three different ports, the second one failed, the other two answered
C5_Witness ==
    /\ pc = "all_summary"
    /\ Len(ports) = 3
    /\ Cardinality({ports[i].device : i \in 1..3}) = 3
    /\ results[1][2] = "SUCCESS"
    /\ results[2][2] = "SERIAL_ERROR"
    /\ results[3][2] = "SUCCESS"

\* C8: an enumeration that fails is reported as ENUMERATION_ERROR, never as
\* "no ports found"; an enumeration that finds no port is not reported as an
\* error.
C8_EnumerationError ==
    /\ (enum_failed /\ pc = "handler") => report = "ENUMERATION_ERROR"
    /\ enum_failed => report # "NO_PORTS_FOUND"
    /\ (~enum_failed /\ pc = "rescan_prompt") => report = "NO_PORTS_FOUND"

\* the part of C8 that run() keeps: a failed enumeration reaches the catch-all
\* clause of run() and is reported as an unexpected error, never as "no ports
\* found"; an empty enumeration is reported as "no ports found"
C8_Distinguishable ==
    /\ enum_failed => report = "UNEXPECTED_ERROR"
    /\ (~enum_failed /\ pc = "rescan_prompt") =>
          (ports = <<>> /\ report = "NO_PORTS_FOUND")

\* only a user interrupt leaves a probe as an exception; the interrupted probe
\* adds no result; and once run() is left no probe runs
InterruptEndsRun ==
    /\ ppc = "raised" =>
          /\ exc = "KeyboardInterrupt"
          /\ pc \in {"single_call", "all_call", "exited"}
          /\ Len(results) = idx - 1
    /\ pc \in {"exited", "crashed"} => ppc \in {"idle", "raised"}

\* C10: a user interrupt in a probe ends the run and no further port is probed;
\* nothing but a user interrupt or the exit choice ends the main loop.
C10_OnlyInterruptOrExit ==
    /\ InterruptEndsRun
    /\ pc \in {"exited", "crashed"} => ended_by \in {"KeyboardInterrupt", "exit_choice"}

\* the part of C10 that run() keeps: the interrupt half, and after an interrupt
\* left a probe the next step of run() is its exit
C10_InterruptHalf ==
    /\ []InterruptEndsRun
    /\ [][(ppc = "raised" /\ pc \in {"single_call", "all_call"})
            => (pc' = "exited" /\ ended_by' = "KeyboardInterrupt"
                  /\ results' = results /\ probed' = probed)]_vars

====
